---- MODULE Spec2Model ----
(***************************************************************************)
(* Model of the Solteq Sund journal-export robot:                          *)
(*   robot_framework/process.py              process()                     *)
(*   robot_framework/sub_process/solteq_sund.py   SolteqSundApp            *)
(*                                                                         *)
(* The program is one thread that drives an external GUI.  Every blocking  *)
(* call of the program is a bounded polling wait or a sleep of the GUI      *)
(* library after a send, so the workflow is split at these: pc is the      *)
(* position in process()/login/open_patient/create_journal and wpc is the  *)
(* position inside the running wait.                                       *)
(* The GUI and the database are external: the GUI changes by the actions   *)
(* GuiAppear/GuiDisappear at any moment of a wait, the database answers a  *)
(* query with any number of rows.                                          *)
(*                                                                         *)
(* Time is counted in ticks of one poll interval (0.5 s, line 97), the     *)
(* smallest duration the program names.                                    *)
(***************************************************************************)
EXTENDS Integers, Sequences, FiniteSets, TLC

VARIABLES
    pc,                   \* position in the workflow
    wpc,                  \* position in the running wait: idle/loop/sleep/returned/raised
    fn,                   \* the wait primitive that is running (or ran last)
    target,               \* descriptor the running wait polls
    timeout,              \* parameter timeout of the running wait, in seconds
    end_time,             \* local end_time of the running wait
    ret,                  \* value returned by the last wait
    now,                  \* time.time(), in ticks
    gui,                  \* controls that exist in the accessibility tree
    app_window,           \* self.app_window
    print_journal_window, \* local of create_journal
    username, password, ssn, connection_string,  \* fields set by __init__
    sent,                 \* inputs sent to the GUI, in order
    error,                \* exception that left process(), or None
    steps,                \* workflow steps started, in order
    calls,                \* wait call sites invoked, in order
    queries,              \* number of database queries issued
    rows,                 \* rows returned by the last query (-1: none issued)
    observed,             \* descriptors a poll has seen to exist
    seenAbsent,           \* descriptors a disappearance poll has seen absent
    t_invoke,             \* clock at the invocation of the running wait
    t_end,                \* clock at which the last wait returned or raised
    changedLate           \* target changed at or after end_time of the running wait

vars == <<pc, wpc, fn, target, timeout, end_time, ret, now, gui, app_window,
          print_journal_window, username, password, ssn, connection_string,
          sent, error, steps, calls, queries, rows, observed, seenAbsent,
          t_invoke, t_end, changedLate>>

driver == <<app_window, username, password, ssn, connection_string>>

----------------------------------------------------------------------------
(* Program constants *)

TicksPerSecond == 2        \* time.sleep(0.5): one tick is half a second
SleepTicks == 1            \* time.sleep(0.5)
DefaultTimeout == 30       \* timeout=30
LongTimeout == 60          \* timeout=60
OperationWaitTicks == 1    \* SendKeys without waitTime: the library's default, 0.5 s

(* Bounds of the model *)

MaxOversleep == 1          \* extra ticks a sleep may take (sleep is "at least")
MaxRows == 2               \* most rows the database returns

None == "None"

----------------------------------------------------------------------------
(* The wait primitives *)

\* Mutant of EndTime: the budget counted in polls, not in seconds
EndTimeByPollCount(t, secs) == t + secs * SleepTicks

\* end_time = time.time() + timeout
EndTime(t, secs) == t + secs * TicksPerSecond

\* while time.time() < end_time
LoopCond(t, e) == t < e

\* control.Exists(0, 0)
Exists(c, g) == c \in g

\* Mutant of Gone: the negation left out
GoneInverted(c, g) == Exists(c, g)

\* if not control.Exists(0, 0)
Gone(c, g) == ~Exists(c, g)

\* time.sleep(0.5) sleeps the interval or longer
SleepDuration(extra) == SleepTicks + extra

\* the library's sleep after a SendKeys called without waitTime=0: its
\* default of 0.5 s, or longer
OperationWait(extra) == OperationWaitTicks + extra

\* A call of one of the wait primitives: its parameters and its first line.
CallWait(f, site, c, t) ==
    /\ fn' = f
    /\ wpc' = "loop"
    /\ target' = c
    /\ timeout' = t
    /\ end_time' = EndTime(now, t)
    /\ t_invoke' = now
    /\ changedLate' = FALSE
    /\ calls' = Append(calls, site)

\* Mutant of RaiseTimeout: past the deadline the loop polls on and never raises
HangOnTimeout ==
    /\ wpc' = "loop"
    /\ t_end' = now
    /\ UNCHANGED <<pc, error, ret, driver, sent>>

\* Mutant of RaiseTimeout: the docstring's "otherwise None" instead of a raise
ReturnNoneOnTimeout ==
    /\ wpc' = "returned"
    /\ ret' = None
    /\ t_end' = now
    /\ UNCHANGED <<pc, error, driver, sent>>

\* raise TimeoutError(...): nothing in the program catches it, process() ends
RaiseTimeout ==
    /\ wpc' = "raised"
    /\ pc' = "failed"
    /\ error' = "TimeoutError"
    /\ t_end' = now
    /\ UNCHANGED <<ret, driver, sent>>

\* Mutant of ReturnValue: the primitive itself stores the handle it found
ReturnAndStore(v) ==
    /\ wpc' = "returned"
    /\ ret' = v
    /\ t_end' = now
    /\ app_window' = v
    /\ UNCHANGED <<pc, error, username, password, ssn, connection_string, sent>>

\* return control / return True
ReturnValue(v) ==
    /\ wpc' = "returned"
    /\ ret' = v
    /\ t_end' = now
    /\ UNCHANGED <<pc, error, driver, sent>>

\* the poll did not end the wait: on to time.sleep
KeepWaiting ==
    /\ wpc' = "sleep"
    /\ UNCHANGED <<pc, error, ret, t_end, driver, sent>>

\* One pass of the loop of wait_for_control, up to the sleep.
WaitForControlLoop ==
    /\ fn = "wait_for_control"
    /\ wpc = "loop"
    /\ IF LoopCond(now, end_time)
       THEN IF Exists(target, gui)
            THEN /\ ReturnValue(target)
                 /\ observed' = observed \cup {target}
            ELSE /\ KeepWaiting
                 /\ UNCHANGED observed
       ELSE /\ RaiseTimeout
            /\ UNCHANGED observed
    /\ UNCHANGED <<fn, target, timeout, end_time, now, gui,
                   print_journal_window, steps, calls, queries, rows,
                   seenAbsent, t_invoke, changedLate>>

\* One pass of the loop of wait_for_control_to_disappear, up to the sleep.
WaitForControlToDisappearLoop ==
    /\ fn = "wait_for_control_to_disappear"
    /\ wpc = "loop"
    /\ IF LoopCond(now, end_time)
       THEN IF Gone(target, gui)
            THEN /\ ReturnValue(TRUE)
                 /\ seenAbsent' = IF target \in gui THEN seenAbsent
                                  ELSE seenAbsent \cup {target}
            ELSE /\ KeepWaiting
                 /\ UNCHANGED seenAbsent
       ELSE /\ RaiseTimeout
            /\ UNCHANGED seenAbsent
    /\ UNCHANGED <<fn, target, timeout, end_time, now, gui,
                   print_journal_window, steps, calls, queries, rows, observed,
                   t_invoke, changedLate>>

\* time.sleep(0.5), in either primitive
WaitSleep ==
    /\ wpc = "sleep"
    /\ \E extra \in 0..MaxOversleep : now' = now + SleepDuration(extra)
    /\ wpc' = "loop"
    /\ UNCHANGED <<pc, fn, target, timeout, end_time, ret, gui, driver,
                   print_journal_window, sent, error, steps, calls, queries,
                   rows, observed, seenAbsent, t_invoke, t_end, changedLate>>

----------------------------------------------------------------------------
(* The external GUI: the polled control comes and goes while a wait runs *)

GuiAppear ==
    /\ wpc \in {"loop", "sleep"}
    /\ target \notin gui
    /\ gui' = gui \cup {target}
    /\ changedLate' = (now >= end_time)
    /\ UNCHANGED <<pc, wpc, fn, target, timeout, end_time, ret, now, driver,
                   print_journal_window, sent, error, steps, calls, queries,
                   rows, observed, seenAbsent, t_invoke, t_end>>

GuiDisappear ==
    /\ wpc \in {"loop", "sleep"}
    /\ target \in gui
    /\ gui' = gui \ {target}
    /\ changedLate' = (now >= end_time)
    /\ UNCHANGED <<pc, wpc, fn, target, timeout, end_time, ret, now, driver,
                   print_journal_window, sent, error, steps, calls, queries,
                   rows, observed, seenAbsent, t_invoke, t_end>>

----------------------------------------------------------------------------
(* The workflow: process() and the four steps of SolteqSundApp *)

\* the inputs login() sends once the login window is there
LoginInput(w, u, p) ==
    << <<w, "SetFocus">>, <<"textBoxLogin", u>>, <<"textBoxPassword", p>>,
       <<"textBoxPassword", "{ENTER}">> >>

\* Mutant of IsJournalCreated: any answer of the database counts
IsJournalCreatedAnyAnswer(n) == n >= 0

\* if not result: bool_result = False else: bool_result = True
IsJournalCreated(n) == n > 0

\* process(): construct the driver, then start_application()
StartApplication ==
    /\ pc = "start"
    /\ steps' = Append(steps, "start_application")
    /\ \E ok \in BOOLEAN :
          IF ok THEN /\ pc' = "login"
                     /\ UNCHANGED error
                ELSE /\ pc' = "failed"
                     /\ error' = "OSError"
    /\ UNCHANGED <<wpc, fn, target, timeout, end_time, ret, now, gui, driver,
                   print_journal_window, sent, calls, queries, rows, observed,
                   seenAbsent, t_invoke, t_end, changedLate>>

\* login(), up to its first wait
LoginBegin ==
    /\ pc = "login"
    /\ steps' = Append(steps, "login")
    /\ CallWait("wait_for_control", "login:frmLogin", "frmLogin", DefaultTimeout)
    /\ pc' = "login_w1"
    /\ UNCHANGED <<ret, now, gui, driver, print_journal_window, sent, error,
                   queries, rows, observed, seenAbsent, t_end>>

\* login(): the login window is there; type the credentials, wait for frmClient
LoginSubmit ==
    /\ pc = "login_w1"
    /\ wpc = "returned"
    /\ app_window' = ret
    /\ sent' = sent \o LoginInput(ret, username, password)
    /\ CallWait("wait_for_control", "login:frmClient", "frmClient", LongTimeout)
    /\ pc' = "login_w2"
    /\ UNCHANGED <<ret, now, gui, username, password, ssn, connection_string,
                   print_journal_window, error, steps, queries, rows, observed,
                   seenAbsent, t_end>>

\* login(): the main window is there and becomes the session window
LoginEnd ==
    /\ pc = "login_w2"
    /\ wpc = "returned"
    /\ app_window' = ret
    /\ wpc' = "idle"
    /\ pc' = "open_patient"
    /\ UNCHANGED <<fn, target, timeout, end_time, ret, now, gui, username, password, ssn,
                   connection_string, print_journal_window, sent, error, steps,
                   calls, queries, rows, observed, seenAbsent, t_invoke, t_end,
                   changedLate>>

\* open_patient(), up to its first wait
OpenPatientBegin ==
    /\ pc = "open_patient"
    /\ steps' = Append(steps, "open_patient")
    /\ sent' = Append(sent, <<app_window, "{Ctrl}o">>)
    /\ CallWait("wait_for_control", "open_patient:TextBoxChildCPR",
                "TextBoxChildCPR", DefaultTimeout)
    /\ pc' = "open_w1"
    /\ UNCHANGED <<ret, now, gui, driver, print_journal_window, error, queries,
                   rows, observed, seenAbsent, t_end>>

\* open_patient(): the search field is there; focus it and type the identifier.
\* SendKeys(self.ssn) is called without waitTime, so the library then sleeps.
OpenPatientType ==
    /\ pc = "open_w1"
    /\ wpc = "returned"
    /\ sent' = sent \o << <<"TextBoxChildCPR", "SetFocus">>,
                          <<"TextBoxChildCPR", ssn>> >>
    /\ wpc' = "idle"
    /\ pc' = "open_typed"
    /\ UNCHANGED <<fn, target, timeout, end_time, ret, now, gui, driver,
                   print_journal_window, error, steps, calls, queries, rows,
                   observed, seenAbsent, t_invoke, t_end, changedLate>>

\* open_patient(): the sleep after SendKeys(self.ssn) ends; send {ENTER},
\* again without waitTime, so the library sleeps once more.
OpenPatientEnter ==
    /\ pc = "open_typed"
    /\ \E extra \in 0..MaxOversleep : now' = now + OperationWait(extra)
    /\ sent' = Append(sent, <<"TextBoxChildCPR", "{ENTER}">>)
    /\ pc' = "open_entered"
    /\ UNCHANGED <<wpc, fn, target, timeout, end_time, ret, gui, driver,
                   print_journal_window, error, steps, calls, queries, rows,
                   observed, seenAbsent, t_invoke, t_end, changedLate>>

\* open_patient(): the sleep after SendKeys("{ENTER}") ends
OpenPatientEntered ==
    /\ pc = "open_entered"
    /\ \E extra \in 0..MaxOversleep : now' = now + OperationWait(extra)
    /\ pc' = "open_search"
    /\ UNCHANGED <<wpc, fn, target, timeout, end_time, ret, gui, driver,
                   print_journal_window, sent, error, steps, calls, queries,
                   rows, observed, seenAbsent, t_invoke, t_end, changedLate>>

\* open_patient(): wait for the list entry
OpenPatientSearch ==
    /\ pc = "open_search"
    /\ CallWait("wait_for_control", "open_patient:ListItem", "ListItem",
                DefaultTimeout)
    /\ pc' = "open_w2"
    /\ UNCHANGED <<ret, now, gui, driver, print_journal_window, sent, error,
                   steps, queries, rows, observed, seenAbsent, t_end>>

\* open_patient(): open the list entry, wait for the patient's tab
OpenPatientSelect ==
    /\ pc = "open_w2"
    /\ wpc = "returned"
    /\ sent' = Append(sent, <<ret, "DoubleClick">>)
    /\ CallWait("wait_for_control", "open_patient:TabItem", "TabItem",
                DefaultTimeout)
    /\ pc' = "open_w3"
    /\ UNCHANGED <<ret, now, gui, driver, print_journal_window, error, steps,
                   queries, rows, observed, seenAbsent, t_end>>

\* open_patient() returns
OpenPatientEnd ==
    /\ pc = "open_w3"
    /\ wpc = "returned"
    /\ wpc' = "idle"
    /\ pc' = "create_journal"
    /\ UNCHANGED <<fn, target, timeout, end_time, ret, now, gui, driver,
                   print_journal_window, sent, error, steps, calls, queries,
                   rows, observed, seenAbsent, t_invoke, t_end, changedLate>>

\* create_journal(), up to its first wait
CreateJournalBegin ==
    /\ pc = "create_journal"
    /\ steps' = Append(steps, "create_journal")
    /\ sent' = Append(sent, <<app_window, "{Ctrl}{Shift}p">>)
    /\ CallWait("wait_for_control", "create_journal:frmViewBase", "frmViewBase",
                DefaultTimeout)
    /\ pc' = "journal_w1"
    /\ UNCHANGED <<ret, now, gui, driver, print_journal_window, error, queries,
                   rows, observed, seenAbsent, t_end>>

\* Mutant of CreateJournalPrint: the dialog becomes the session window
CreateJournalPrintSession ==
    /\ pc = "journal_w1"
    /\ wpc = "returned"
    /\ app_window' = ret
    /\ sent' = Append(sent, <<"buttonPrintToDocumentStore", "Click">>)
    /\ CallWait("wait_for_control_to_disappear", "create_journal:frmViewBase:gone",
                "frmViewBase", LongTimeout)
    /\ pc' = "journal_w2"
    /\ UNCHANGED <<ret, now, gui, username, password, ssn, connection_string,
                   print_journal_window, error, steps, queries, rows, observed,
                   seenAbsent, t_end>>

\* create_journal(): the dialog is there; press its button, wait for it to go
CreateJournalPrint ==
    /\ pc = "journal_w1"
    /\ wpc = "returned"
    /\ print_journal_window' = ret
    /\ sent' = Append(sent, <<"buttonPrintToDocumentStore", "Click">>)
    /\ CallWait("wait_for_control_to_disappear", "create_journal:frmViewBase:gone",
                "frmViewBase", LongTimeout)
    /\ pc' = "journal_w2"
    /\ UNCHANGED <<ret, now, gui, driver, error, steps, queries, rows, observed,
                   seenAbsent, t_end>>

\* create_journal(): the dialog is gone; look the document up in the database
CreateJournalVerify ==
    /\ pc = "journal_w2"
    /\ wpc = "returned"
    /\ \E n \in 0..MaxRows :
          /\ rows' = n
          /\ queries' = queries + 1
          /\ IF ~IsJournalCreated(n)
             THEN /\ pc' = "failed"
                  /\ error' = "ValueError"
             ELSE /\ pc' = "done"
                  /\ UNCHANGED error
    /\ wpc' = "idle"
    /\ UNCHANGED <<fn, target, timeout, end_time, ret, now, gui, driver,
                   print_journal_window, sent, steps, calls, observed,
                   seenAbsent, t_invoke, t_end, changedLate>>

----------------------------------------------------------------------------

Init ==
    /\ pc = "start"
    /\ wpc = "idle"
    /\ fn = None
    /\ target = None
    /\ timeout = 0
    /\ end_time = 0
    /\ ret = None
    /\ now = 0
    /\ gui = {}
    /\ app_window = None
    /\ print_journal_window = None
    /\ username = "user"
    /\ password = "secret"
    /\ ssn = ""
    /\ connection_string = "connstr"
    /\ sent = << >>
    /\ error = None
    /\ steps = << >>
    /\ calls = << >>
    /\ queries = 0
    /\ rows = -1
    /\ observed = {}
    /\ seenAbsent = {}
    /\ t_invoke = 0
    /\ t_end = 0
    /\ changedLate = FALSE

Program ==
    \/ StartApplication
    \/ LoginBegin
    \/ LoginSubmit
    \/ LoginEnd
    \/ OpenPatientBegin
    \/ OpenPatientType
    \/ OpenPatientEnter
    \/ OpenPatientEntered
    \/ OpenPatientSearch
    \/ OpenPatientSelect
    \/ OpenPatientEnd
    \/ CreateJournalBegin
    \/ CreateJournalPrint
    \/ CreateJournalVerify
    \/ WaitForControlLoop
    \/ WaitForControlToDisappearLoop
    \/ WaitSleep

Next ==
    \/ Program
    \/ GuiAppear
    \/ GuiDisappear

Spec == Init /\ [][Next]_vars

\* The same program, with the scheduling the code has: the one thread keeps
\* running (a sleep ends, the clock advances); the GUI owes nothing.
FairSpec == Init /\ [][Next]_vars /\ WF_vars(Program)

----------------------------------------------------------------------------
(* Checked properties *)

IsPrefix(a, b) == Len(a) <= Len(b) /\ SubSeq(b, 1, Len(a)) = a

Last(q) == q[Len(q)]

StepOrder == <<"start_application", "login", "open_patient", "create_journal">>

CallOrder == <<"login:frmLogin", "login:frmClient",
               "open_patient:TextBoxChildCPR", "open_patient:ListItem",
               "open_patient:TabItem", "create_journal:frmViewBase",
               "create_journal:frmViewBase:gone">>

Budget == timeout * TicksPerSecond

Appearing == fn = "wait_for_control"
Disappearing == fn = "wait_for_control_to_disappear"
Ended == wpc \in {"returned", "raised"}

\* the polled control is there (is gone) and has not changed since some
\* instant before the deadline of the running wait
PresentSinceBeforeDeadline == target \in gui /\ ~changedLate
AbsentSinceBeforeDeadline == target \notin gui /\ ~changedLate
Terminated == pc \in {"done", "failed"}

\* C1: a wait_for_control whose polls never found the control ends by raising
\* TimeoutError, no sooner than `timeout` after its invocation; it does not
\* return (neither a handle nor None), and whatever it returns is the handle
\* of a control a poll found.
C1_TimeoutNotBefore ==
    /\ (Appearing /\ Ended /\ target \notin observed) =>
          /\ wpc = "raised"
          /\ error = "TimeoutError"
          /\ pc = "failed"
          /\ t_end - t_invoke >= Budget
    /\ (Appearing /\ wpc = "raised") =>
          /\ target \notin observed
          /\ t_end - t_invoke >= Budget
    /\ (Appearing /\ wpc = "returned") => (ret = target /\ ret # None)

C1_Witness ==
    /\ Appearing
    /\ wpc = "raised"
    /\ target = "frmClient"
    /\ timeout = LongTimeout
    /\ target \notin observed
    /\ target \notin gui
    /\ t_end - t_invoke > Budget

\* C2 (as claimed): a control that came into existence before the deadline of
\* a wait_for_control and is still there when the wait ends makes the wait
\* return its handle, within timeout plus one poll interval of the invocation.
C2_ReturnsIfAppearsInWindow ==
    (Appearing /\ Ended /\ PresentSinceBeforeDeadline) =>
       /\ wpc = "returned"
       /\ ret = target
       /\ t_end - t_invoke <= Budget + SleepTicks

\* C3 (as claimed): wait_for_control_to_disappear returns True, never False,
\* and only on a poll that found the control absent; it raises only if the
\* control is still there at the deadline, so not when the control went away
\* before the deadline and stayed away.
C3_DisappearDual ==
    /\ (Disappearing /\ wpc = "returned") => (ret = TRUE /\ target \in seenAbsent)
    /\ (Disappearing /\ wpc = "raised") => ~AbsentSinceBeforeDeadline

\* C4: the database is queried only after a poll has seen the dialog
\* frmViewBase absent; when the wait for its disappearance times out,
\* create_journal fails with TimeoutError and no query was issued.
C4_NoQueryUnlessDialogGone ==
    /\ queries > 0 => "frmViewBase" \in seenAbsent
    /\ (Disappearing /\ wpc = "raised") =>
          /\ pc = "failed"
          /\ error = "TimeoutError"
          /\ queries = 0
          /\ rows = -1
          /\ "frmViewBase" \notin seenAbsent

C4_Witness ==
    /\ Disappearing
    /\ wpc = "raised"
    /\ error = "TimeoutError"
    /\ "frmViewBase" \in gui
    /\ queries = 0
    /\ t_end - t_invoke >= LongTimeout * TicksPerSecond

\* C5: the database is queried at most once; create_journal returns normally
\* exactly when that one query returned a row, and a query without rows ends
\* the run with ValueError (not TimeoutError), after the dialog was seen gone.
C5_VerifyOnce ==
    /\ queries \in {0, 1}
    /\ (pc = "done") <=> (queries = 1 /\ rows >= 1)
    /\ (queries = 1 /\ rows = 0) => (pc = "failed" /\ error = "ValueError")
    /\ error = "ValueError" =>
          (queries = 1 /\ rows = 0 /\ "frmViewBase" \in seenAbsent)

C5_Witness ==
    /\ pc = "failed"
    /\ error = "ValueError"
    /\ queries = 1
    /\ rows = 0
    /\ "frmViewBase" \in seenAbsent
    /\ "frmViewBase" \notin gui

\* C6, state part: the steps started are a prefix of launch, login, open
\* patient, create journal, and the waits invoked a prefix of the seven call
\* sites in their order (each at most once); the run has failed exactly when
\* an exception left process().
C6_Order ==
    /\ IsPrefix(steps, StepOrder)
    /\ IsPrefix(calls, CallOrder)
    /\ (pc = "failed") <=> (error # None)
    /\ (pc = "done") => (steps = StepOrder /\ calls = CallOrder)

\* C6, step part: a wait whose deadline has passed ends the run with
\* TimeoutError, a query without rows ends it with ValueError, and after a
\* failure nothing more happens: no step, no wait, no input, no query.
C6_Abort ==
    /\ (wpc = "loop" /\ now >= end_time /\ wpc' # "loop") =>
          (pc' = "failed" /\ error' = "TimeoutError" /\ steps' = steps /\ calls' = calls)
    /\ (queries' # queries /\ rows' = 0) =>
          (pc' = "failed" /\ error' = "ValueError")
    /\ (pc = "failed") => UNCHANGED <<pc, error, steps, calls, sent, queries, wpc>>

\* C6: the four steps run in the fixed order, each at most once, and a failure
\* in any step aborts the run with nothing retried or started after it.
C6_OrderedAbortOnFailure == [](C6_Order) /\ [][C6_Abort]_vars

C6_Witness ==
    /\ pc = "failed"
    /\ error = "TimeoutError"
    /\ steps = <<"start_application", "login", "open_patient">>
    /\ Last(calls) = "open_patient:ListItem"

LoginSucceeded == Len(steps) >= 3 \/ pc = "open_patient"

\* C7 (as claimed): when the login window appeared within its budget and the
\* main client window frmClient appears within 60 units of the credentials
\* being submitted (it is there since before the deadline of the second wait),
\* login succeeds: it does not end in TimeoutError.  Further, once login has
\* returned the session handle is frmClient; input is sent only after a poll
\* saw frmLogin, and starts with the credentials typed into that window; and
\* if login fails with TimeoutError the session handle is not frmClient.
C7_LoginAsClaimed ==
    /\ (Appearing /\ target = "frmClient" /\ "frmLogin" \in observed
           /\ Ended /\ PresentSinceBeforeDeadline) =>
          (wpc = "returned" /\ ret = "frmClient")
    /\ LoginSucceeded =>
          (app_window = "frmClient" /\ {"frmLogin", "frmClient"} \subseteq observed)
    /\ sent # << >> =>
          /\ "frmLogin" \in observed
          /\ SubSeq(sent, 1, 4) = LoginInput("frmLogin", username, password)
    /\ (pc = "failed" /\ steps = <<"start_application", "login">>) =>
          /\ error = "TimeoutError"
          /\ app_window # "frmClient"
          /\ (Last(calls) = "login:frmClient" => app_window = "frmLogin")
          /\ (Last(calls) = "login:frmLogin" => (app_window = None /\ sent = << >>))

\* C8, one step: while a wait runs, the fields of the driver, the local handle of
\* create_journal and the inputs sent to the GUI do not change, whether the
\* wait goes on, returns or raises; a poll that did not find what it waits for
\* changes nothing at all but the position in the loop.
C8_Frame ==
    wpc \in {"loop", "sleep"} =>
       /\ UNCHANGED <<driver, print_journal_window, sent>>
       /\ (wpc = "loop" /\ wpc' = "sleep") =>
             UNCHANGED <<pc, fn, target, timeout, end_time, ret, now, gui,
                         error, steps, calls, queries, rows, observed,
                         seenAbsent, t_invoke, t_end, changedLate>>

\* C8: polling has no side effect on the driver or the GUI: every step taken
\* while a wait runs satisfies the frame condition above.
C8_PollingFrame == [][C8_Frame]_vars

C8_Witness ==
    /\ Appearing
    /\ wpc = "returned"
    /\ ret = "frmClient"
    /\ app_window = "frmLogin"
    /\ Len(sent) = 4

\* C9 (as claimed): while the document dialog frmViewBase is open during
\* create_journal, the session handle refers to that dialog.
C9_HandleIsDialog ==
    (pc = "journal_w2" /\ "frmViewBase" \in gui) => app_window = "frmViewBase"

\* C9 (amended): the session handle is one value, overwritten only in login:
\* None, then the login window, then the main client window for the rest of
\* the run; during create_journal the dialog's handle is held in the local
\* print_journal_window and the session handle stays the main client window.
C9_HandleOverwrittenInLoginOnly ==
    /\ app_window \in {None, "frmLogin", "frmClient"}
    /\ pc \in {"start", "login", "login_w1"} => app_window = None
    /\ pc = "login_w2" => app_window = "frmLogin"
    /\ pc \in {"open_patient", "open_w1", "open_typed", "open_entered",
               "open_search", "open_w2", "open_w3", "create_journal",
               "journal_w1", "journal_w2", "done"} => app_window = "frmClient"
    /\ pc = "journal_w2" => print_journal_window = "frmViewBase"
    /\ pc \in {"start", "login", "login_w1", "login_w2", "open_patient",
               "open_w1", "open_typed", "open_entered",
               "open_search", "open_w2", "open_w3", "create_journal",
               "journal_w1"} => print_journal_window = None

C9_Witness ==
    /\ pc = "journal_w2"
    /\ wpc = "sleep"
    /\ "frmViewBase" \in gui
    /\ app_window = "frmClient"
    /\ print_journal_window = "frmViewBase"

\* C10: with the thread running (the clock advances), every wait that has been
\* invoked ends, returning or raising, whatever the GUI does, and every run of
\* process() ends in success or failure.
C10_Termination == <>(Terminated /\ wpc \notin {"loop", "sleep"})

C10_Witness ==
    /\ pc = "done"
    /\ now > 0
    /\ calls = CallOrder

====
